---- MODULE Spec2Model ----
(***************************************************************************)
(* A model of the stencil specialization engine (sridharv/stencil).        *)
(*                                                                         *)
(* Paths are sequences of path segments (the root "/" is <<>>), a Go file  *)
(* is a record holding its package name, its import paths and its          *)
(* declarations as a syntax tree, and the filesystem is a set of           *)
(* directories plus a map from file paths to file contents.  Import paths  *)
(* are canonical (no empty, "." or ".." segment), as the go tool requires. *)
(***************************************************************************)
EXTENDS Integers, Sequences, FiniteSets, TLC

VARIABLES
  fs,      \* the filesystem: [dirs, files]
  cwd,     \* the working directory of the process
  paths,   \* Process's argument paths
  format,  \* Process's argument format (the -w flag)
  pc,      \* position of the (single-threaded) program
  run,     \* number of the current invocation of Process
  dirs,    \* processStencil: entries of the listPackages map not yet ranged over
  dir,     \* processDir: dir
  vendor,  \* processDir: vendor
  roots,   \* processDir: roots
  files,   \* processDir: files not yet parsed
  fl,      \* processDir: the file whose imports are being ranged over
  imps,    \* processDir: imports of fl not yet processed
  res,     \* processStencil: res, the buffered File descriptors
  ret,     \* Process: files, err as returned by processStencil
  widx,    \* Process: index into files / paths of the persisting loops
  err,     \* the error Process returns ("" is nil)
  log,     \* history: one record per import processed in this invocation
  hist,    \* history: one record per finished invocation
  rw,      \* the rewriter on its own: [in, r, out, panic, done]
  status,  \* the exit status of the stencil command
  walk,    \* applyList on its own: [orig, del, list, index, seen]
  vdir     \* processDir: d, the directory the vendor loop is at

vars == <<fs, cwd, paths, format, pc, run, dirs, dir, vendor, roots, files, fl,
          imps, res, ret, widx, err, log, hist, rw, status, walk, vdir>>

engineLocals == <<dirs, dir, vendor, roots, files, fl, imps, res>>

(***************************************************************************)
(* Bounds of the model.                                                    *)
(***************************************************************************)
MaxImports == 2   \* imports per consumer file
MaxRuns == 2      \* successive invocations of Process
MaxDecls == 2     \* declarations per stencil file of the rewriter's inputs
MaxLen == 4       \* elements of the list applyList walks on its own

(***************************************************************************)
(* Paths: path/filepath.                                                   *)
(***************************************************************************)
Dir(p) == IF Len(p) = 0 THEN p ELSE SubSeq(p, 1, Len(p) - 1)

Base(p) == IF Len(p) = 0 THEN "/" ELSE p[Len(p)]

\* filepath.Clean: a path without "", "." and ".." segments is clean
RECURSIVE Clean(_)
Clean(p) ==
  IF \A i \in DOMAIN p : p[i] \notin {"", ".", ".."} THEN p
  ELSE LET init == Clean(SubSeq(p, 1, Len(p) - 1))
           last == p[Len(p)]
       IN  IF last = "." \/ last = "" THEN init
           ELSE IF last = ".." THEN Dir(init)
           ELSE Append(init, last)

Join(a, b) == Clean(a \o b)

\* An argument is [abs |-> BOOLEAN, p |-> segments]
Abs(wd, arg) == IF arg.abs THEN Clean(arg.p) ELSE Join(wd, arg.p)

IsPrefixPath(a, b) == Len(a) <= Len(b) /\ SubSeq(b, 1, Len(a)) = a

(***************************************************************************)
(* Strings: the suffix and prefix tests of package strings over the names  *)
(* that occur in the model.                                                *)
(***************************************************************************)
\* every file name of the model, in the order ioutil.ReadDir returns them
NameOrder == <<"README", "a.go", "a_test.go", "b.go", "main.go", "use.go", "use_test.go">>

GoNames == {"a.go", "a_test.go", "b.go", "main.go", "use.go", "use_test.go"}

TestNames == {"a_test.go", "use_test.go"}

HasSuffixGo(s) == s \in GoNames

HasSuffixTestGo(s) == s \in TestNames

\* pairs <<a, b>> of distinct segment names with a a string prefix of b
SegPrefixes == {<<"src", "srcfoo">>, <<"src", "srcbar">>}

\* strings.HasPrefix(dir, src) on the path strings
HasPrefix(d, src) ==
  \/ src = <<>>
  \/ /\ Len(d) >= Len(src)
     /\ SubSeq(d, 1, Len(src) - 1) = Dir(src)
     /\ \/ d[Len(src)] = Base(src)
        \/ <<Base(src), d[Len(src)]>> \in SegPrefixes

(***************************************************************************)
(* The filesystem: os, io/ioutil.  One directory is a symbolic link.       *)
(***************************************************************************)
\* the permission Process creates files with
FilePerm == 420   \* 0644

GOROOT == <<"goroot", "src">>
GOPATH == <<"gopath", "src">>

\* build.Default.SrcDirs()
SrcDirs == <<GOROOT, GOPATH>>

LinkFrom == <<"work", "src">>
LinkTo == GOPATH

\* the file a path names, symbolic links followed
Real(p) ==
  IF IsPrefixPath(LinkFrom, p)
  THEN LinkTo \o SubSeq(p, Len(LinkFrom) + 1, Len(p))
  ELSE p

IsDir(fsys, p) == Real(p) \in fsys.dirs

IsFile(fsys, p) == Real(p) \in DOMAIN fsys.files

StatOk(fsys, p) == IsDir(fsys, p) \/ IsFile(fsys, p)

SameFile(a, b) == Real(a) = Real(b)

ReadFile(fsys, p) == fsys.files[Real(p)]

\* names of the .go files ioutil.ReadDir lists in directory c, sorted by name
GoEntries(fsys, c) ==
  SelectSeq(NameOrder, LAMBDA n : HasSuffixGo(n) /\ IsFile(fsys, Append(c, n)))

RECURSIVE Ancestors(_)
Ancestors(p) == IF Len(p) = 0 THEN {<<>>} ELSE {p} \cup Ancestors(Dir(p))

\* os.MkdirAll(d): fails when a file is in the way
MkdirAllOk(fsys, d) == \A a \in Ancestors(d) : ~IsFile(fsys, a)

MkdirAll(fsys, d) == [fsys EXCEPT !.dirs = @ \cup {Real(a) : a \in Ancestors(d)}]

\* ioutil.WriteFile(p, data, perm): fails when p is a directory or its parent
\* is none
WriteFileOk(fsys, p) == IsDir(fsys, Dir(p)) /\ ~IsDir(fsys, p)

\* os.Stat(p).Mode() of a file
Mode(fsys, p) == fsys.modes[Real(p)]

\* perm is the mode of the file when WriteFile creates it; a file that exists
\* keeps its mode
WriteFile(fsys, p, data, perm) ==
  [fsys EXCEPT !.files = (Real(p) :> data) @@ @,
               !.modes = IF IsFile(fsys, p) THEN @ ELSE (Real(p) :> perm) @@ @]

(***************************************************************************)
(* Syntax trees: go/ast.  A node is [k, name, pos, f]: its kind, its name  *)
(* (an identifier's Name, a literal's or comment's text, a GenDecl's Tok), *)
(* its position and its child fields, each a sequence of nodes (a field    *)
(* holding one node is a sequence of length one, a nil field is absent or  *)
(* empty).                                                                 *)
(***************************************************************************)
Node(k, name, pos, f) == [k |-> k, name |-> name, pos |-> pos, f |-> f]

Ident(name, pos) == Node("Ident", name, pos, <<>>)

Kids(n, nm) == IF nm \in DOMAIN n.f THEN n.f[nm] ELSE <<>>

Fld(nm, list) == [nm |-> nm, list |-> list]

\* variant: a traversal that visits the root alone
FieldsOfNothing(k) == <<>>

\* application.apply, "walk children": the child fields of each node kind in
\* the order they are walked; list says the field is walked by applyList
FieldsOf(k) ==
  CASE k = "CommentGroup" -> <<Fld("List", TRUE)>>
    [] k = "Field" -> <<Fld("Doc", FALSE), Fld("Names", TRUE), Fld("Type", FALSE),
                        Fld("Tag", FALSE), Fld("Comment", FALSE)>>
    [] k = "FieldList" -> <<Fld("List", TRUE)>>
    [] k = "CompositeLit" -> <<Fld("Type", FALSE), Fld("Elts", TRUE)>>
    [] k = "SelectorExpr" -> <<Fld("X", FALSE), Fld("Sel", FALSE)>>
    [] k = "StructType" -> <<Fld("Fields", FALSE)>>
    [] k = "FuncType" -> <<Fld("Params", FALSE), Fld("Results", FALSE)>>
    [] k = "InterfaceType" -> <<Fld("Methods", FALSE)>>
    [] k = "MapType" -> <<Fld("Key", FALSE), Fld("Value", FALSE)>>
    [] k = "DeclStmt" -> <<Fld("Decl", FALSE)>>
    [] k = "ExprStmt" -> <<Fld("X", FALSE)>>
    [] k = "BlockStmt" -> <<Fld("List", TRUE)>>
    [] k = "ValueSpec" -> <<Fld("Doc", FALSE), Fld("Names", TRUE), Fld("Type", FALSE),
                            Fld("Values", TRUE), Fld("Comment", FALSE)>>
    [] k = "TypeSpec" -> <<Fld("Doc", FALSE), Fld("Name", FALSE), Fld("Type", FALSE),
                           Fld("Comment", FALSE)>>
    [] k = "GenDecl" -> <<Fld("Doc", FALSE), Fld("Specs", TRUE)>>
    [] k = "FuncDecl" -> <<Fld("Doc", FALSE), Fld("Recv", FALSE), Fld("Name", FALSE),
                           Fld("Type", FALSE), Fld("Body", FALSE)>>
    [] k = "File" -> <<Fld("Doc", FALSE), Fld("Name", FALSE), Fld("Decls", TRUE)>>
    [] OTHER -> <<>>   \* Comment, BadExpr, Ident, BasicLit: nothing to do

\* a nil child that application.apply cannot walk: FuncDecl.Body is a nil
\* *ast.BlockStmt for a function declared without a body, and applyList
\* reflects on it
NilPanics(k, nm) == k = "FuncDecl" /\ nm = "Body"

(***************************************************************************)
(* The rewriter: replacer.preReplace under apply.Apply.                    *)
(***************************************************************************)
\* the InterfaceType case of preReplace: is the node replaced?
ReplacesInterface(r, parent, n) ==
  /\ "interface" \in DOMAIN r
  /\ parent # "TypeSpec"

\* variant: a rewriter that looks at every specification of the declaration
DeletesDeclAnySpec(r, n) ==
  \E i \in DOMAIN Kids(n, "Specs") :
    /\ Kids(n, "Specs")[i].k = "TypeSpec"
    /\ Kids(n, "Specs")[i].f.Name[1].name \in DOMAIN r

\* the GenDecl case of preReplace: is c.Delete() called?
DeletesDecl(r, n) ==
  /\ Len(Kids(n, "Specs")) # 0
  /\ Kids(n, "Specs")[1].k = "TypeSpec"
  /\ Kids(n, "Specs")[1].f.Name[1].name \in DOMAIN r

\* variant: a rewriter that renames no identifier
RenameIdentNever(r, n) == n

\* variant: a rewriter that looks the new name up in r once more
RenameIdentTwice(r, n) ==
  LET once == IF n.name \in DOMAIN r THEN r[n.name] ELSE n.name
  IN  [n EXCEPT !.name = IF once \in DOMAIN r THEN r[once] ELSE once]

\* the Ident case of preReplace
RenameIdent(r, n) == IF n.name \in DOMAIN r THEN [n EXCEPT !.name = r[n.name]] ELSE n

\* variant: a rewriter that looks the text of comments and of literals up in
\* r as it does the names of identifiers
preReplaceText(r, parent, hasIndex, n) ==
  CASE n.k = "GenDecl" ->
         IF DeletesDecl(r, n)
         THEN [node |-> n, deleted |-> hasIndex, replaced |-> FALSE, panic |-> ~hasIndex]
         ELSE [node |-> n, deleted |-> FALSE, replaced |-> FALSE, panic |-> FALSE]
    [] n.k \in {"Ident", "Comment", "BasicLit"} ->
         [node |-> RenameIdent(r, n), deleted |-> FALSE, replaced |-> FALSE, panic |-> FALSE]
    [] n.k = "InterfaceType" ->
         IF ReplacesInterface(r, parent, n)
         THEN [node |-> Ident(r["interface"], n.pos), deleted |-> FALSE,
               replaced |-> TRUE, panic |-> FALSE]
         ELSE [node |-> n, deleted |-> FALSE, replaced |-> FALSE, panic |-> FALSE]
    [] OTHER -> [node |-> n, deleted |-> FALSE, replaced |-> FALSE, panic |-> FALSE]

\* preReplace on one cursor: the node left in the cursor's place, whether it
\* was deleted from its list or replaced, and whether ApplyCursor.Delete
\* panicked ("Delete node not contained in slice")
preReplace(r, parent, hasIndex, n) ==
  CASE n.k = "GenDecl" ->
         IF DeletesDecl(r, n)
         THEN [node |-> n, deleted |-> hasIndex, replaced |-> FALSE, panic |-> ~hasIndex]
         ELSE [node |-> n, deleted |-> FALSE, replaced |-> FALSE, panic |-> FALSE]
    [] n.k = "Ident" ->
         [node |-> RenameIdent(r, n), deleted |-> FALSE, replaced |-> FALSE, panic |-> FALSE]
    [] n.k = "InterfaceType" ->
         IF ReplacesInterface(r, parent, n)
         THEN [node |-> Ident(r["interface"], n.pos), deleted |-> FALSE,
               replaced |-> TRUE, panic |-> FALSE]
         ELSE [node |-> n, deleted |-> FALSE, replaced |-> FALSE, panic |-> FALSE]
    [] OTHER -> [node |-> n, deleted |-> FALSE, replaced |-> FALSE, panic |-> FALSE]

\* variant: a loop that goes one element on whatever the callback did
NextIndexSkipping(index, incr) == index + 1

\* applyList's step: the index of the next element after the callback ran on
\* the element at index (Delete shifted the rest down and made incr 0)
NextIndex(index, incr) == index + incr

RECURSIVE apply(_, _, _, _)
RECURSIVE applyList(_, _, _, _)
RECURSIVE walkFields(_, _, _)

\* application.apply: [slot, panic], slot the content of the cursor's place
\* afterwards (empty when the node was deleted from its list)
apply(r, parent, hasIndex, n) ==
  LET p == preReplace(r, parent, hasIndex, n)
  IN  IF p.panic THEN [slot |-> <<n>>, panic |-> TRUE]
      ELSE \* the children walked are those of n, also when n was deleted or replaced
           LET w == walkFields(r, IF p.replaced THEN n ELSE p.node, FieldsOf(n.k))
           IN  IF w.panic THEN [slot |-> <<n>>, panic |-> TRUE]
               ELSE IF p.deleted THEN [slot |-> <<>>, panic |-> FALSE]
               ELSE IF p.replaced THEN [slot |-> <<p.node>>, panic |-> FALSE]
               ELSE [slot |-> <<w.node>>, panic |-> FALSE]

\* application.applyList from index on: [slot, panic], slot the list afterwards
applyList(r, parent, list, index) ==
  IF index > Len(list) THEN [slot |-> list, panic |-> FALSE]
  ELSE LET a == apply(r, parent, TRUE, list[index])
       IN  IF a.panic THEN [slot |-> list, panic |-> TRUE]
           ELSE applyList(r, parent,
                          SubSeq(list, 1, index - 1) \o a.slot \o SubSeq(list, index + 1, Len(list)),
                          NextIndex(index, Len(a.slot)))

\* the child fields fds of n that are still to be walked: [node, panic]
walkFields(r, n, fds) ==
  IF Len(fds) = 0 THEN [node |-> n, panic |-> FALSE]
  ELSE LET fd == Head(fds)
           kids == Kids(n, fd.nm)
       IN  IF kids = <<>>
           THEN IF ~fd.list /\ NilPanics(n.k, fd.nm)
                THEN [node |-> n, panic |-> TRUE]
                ELSE walkFields(r, n, Tail(fds))
           ELSE LET a == IF fd.list THEN applyList(r, n.k, kids, 1)
                         ELSE apply(r, n.k, FALSE, kids[1])
                IN  IF a.panic THEN [node |-> n, panic |-> TRUE]
                    ELSE walkFields(r, [n EXCEPT !.f[fd.nm] = a.slot], Tail(fds))

\* apply.Apply(f, r.preReplace, nil): [node, panic]
Apply(r, root) ==
  LET a == apply(r, "application", FALSE, root)
  IN  [node |-> IF a.panic THEN root ELSE a.slot[1], panic |-> a.panic]

(***************************************************************************)
(* Go files.  A file is [ok, body, pkg, imports, decls, comments, tidy]:    *)
(* whether its package clause and imports parse, whether what follows the  *)
(* imports parses, its package name, its import paths, its declarations,   *)
(* its comment groups and whether goimports has processed it.              *)
(***************************************************************************)
\* the comment groups of a file: the doc comments of its declarations
RECURSIVE DocsOf(_)
DocsOf(decls) ==
  IF Len(decls) = 0 THEN <<>> ELSE Kids(Head(decls), "Doc") \o DocsOf(Tail(decls))

GoFile(pkg, imports, decls) ==
  [ok |-> TRUE, body |-> TRUE, pkg |-> pkg, imports |-> imports, decls |-> decls,
   comments |-> DocsOf(decls), tidy |-> FALSE]

\* a Go file with a syntax error after its imports
BrokenBody(c) == [c EXCEPT !.body = FALSE]

\* parser.ParseFile with parser.ImportsOnly stops after the imports
ParsesImports(c) == c.ok

\* a parse of the whole file: parser.ParseDir, imports.Process
Parses(c) == c.ok /\ c.body

\* the parse of a file with parser.ParseComments: the *ast.File, Comments
\* the list of its comment groups
ParseAST(c) ==
  Node("File", "", 0, [Name |-> <<Ident(c.pkg, 1)>>, Decls |-> c.decls, Comments |-> c.comments])

\* format.Node of a rewritten *ast.File, then imports.Process: the bytes of
\* the emitted file, as the Go file they spell
Printed(c, n) ==
  [c EXCEPT !.pkg = n.f.Name[1].name, !.decls = n.f.Decls, !.comments = n.f.Comments,
            !.tidy = TRUE]

\* variant: an imports.Process that returns the bytes it was given
Untidied(c) == c

\* imports.Process on the bytes of a consumer file
Tidied(c) == [c EXCEPT !.tidy = TRUE]

(***************************************************************************)
(* listPackages                                                            *)
(***************************************************************************)
MapGet(m, k) == IF k \in DOMAIN m THEN m[k] ELSE <<>>

MapPut(m, k, v) == (k :> v) @@ m

MapDel(m, k) == [x \in DOMAIN m \ {k} |-> m[x]]

\* variant: a listing that keeps the _test.go files
ListedFilesWithTests(fsys, c) ==
  [i \in 1..Len(GoEntries(fsys, c)) |-> Append(c, GoEntries(fsys, c)[i])]

\* the files listPackages enumerates in directory c
ListedFiles(fsys, c) ==
  LET names == SelectSeq(GoEntries(fsys, c), LAMBDA n : ~HasSuffixTestGo(n))
  IN  [i \in 1..Len(names) |-> Append(c, names[i])]

RECURSIVE listPackagesLoop(_, _, _, _)
listPackagesLoop(fsys, wd, args, m) ==
  IF args = <<>> THEN [err |-> "", dirs |-> m]
  ELSE LET c == Abs(wd, Head(args))
       IN  IF HasSuffixGo(Base(c))
           THEN listPackagesLoop(fsys, wd, Tail(args),
                                 MapPut(m, Dir(c), Append(MapGet(m, Dir(c)), c)))
           ELSE IF ~IsDir(fsys, c) THEN [err |-> "readdir", dirs |-> <<>>]
           ELSE listPackagesLoop(fsys, wd, Tail(args), MapPut(m, c, ListedFiles(fsys, c)))

listPackages(fsys, wd, args) ==
  listPackagesLoop(fsys, wd,
                   IF Len(args) = 0 THEN <<[abs |-> FALSE, p |-> <<".">>]>> ELSE args,
                   <<>>)

(***************************************************************************)
(* packageExists, replacements                                             *)
(***************************************************************************)
RECURSIVE packageExistsFrom(_, _, _, _)
packageExistsFrom(fsys, rts, pkg, i) ==
  IF i > Len(rts) THEN [dir |-> <<>>, found |-> FALSE]
  ELSE IF IsDir(fsys, Join(rts[i], pkg)) THEN [dir |-> Join(rts[i], pkg), found |-> TRUE]
  ELSE packageExistsFrom(fsys, rts, pkg, i + 1)

packageExists(fsys, rts, pkg) == packageExistsFrom(fsys, rts, pkg, 1)

\* r[parts[l-2]] = parts[l-1]
Assign(r, param, spec) == (param :> spec) @@ r

\* the loop of replacements: [dir, found, r]
RECURSIVE peel(_, _, _, _)
peel(fsys, rts, parts, r) ==
  LET e == packageExists(fsys, rts, parts)
      l == Len(parts)
  IN  IF ~e.found /\ l > 2
      THEN peel(fsys, rts, SubSeq(parts, 1, l - 2), Assign(r, parts[l - 1], parts[l]))
      ELSE [dir |-> e.dir, found |-> e.found, r |-> r]

\* variant: a decoder that takes every existing directory for a stencil, also
\* one found without peeling any pair
NoStencilUnlessFound(found, r) == ~found

\* variant: a decoder that does not look at whether a directory was found
NoStencilUnlessPeeled(found, r) == DOMAIN r = {}

\* what replacements returns for a decoded path: is it "", nil?
NoStencil(found, r) == ~found \/ DOMAIN r = {}

\* replacements: [ok, dir, r]; ok is stencil # ""
replacements(fsys, rts, pkg) ==
  LET d == peel(fsys, rts, pkg, <<>>)
  IN  IF NoStencil(d.found, d.r)
      THEN [ok |-> FALSE, dir |-> <<>>, r |-> <<>>]
      ELSE [ok |-> TRUE, dir |-> d.dir, r |-> d.r]

(***************************************************************************)
(* makeStencilled                                                          *)
(***************************************************************************)
\* variant: a parse of the directory that keeps the _test.go files
ParsedNamesWithTests(fsys, d) == {n \in GoNames : IsFile(fsys, Append(d, n))}

\* the files parser.ParseDir parses in directory d under makeStencilled's filter
ParsedNames(fsys, d) ==
  {n \in GoNames : ~HasSuffixTestGo(n) /\ IsFile(fsys, Append(d, n))}

\* parser.ParseDir: [err, pkgs], pkgs the package names found
ParseDir(fsys, d) ==
  LET names == ParsedNames(fsys, d)
  IN  [err  |-> ~IsDir(fsys, d) \/ \E n \in names : ~Parses(ReadFile(fsys, Append(d, n))),
       pkgs |-> {ReadFile(fsys, Append(d, n)).pkg :
                   n \in {m \in names : Parses(ReadFile(fsys, Append(d, m)))}}]

\* the orders in which a Go map with these keys can be ranged over
Orders(S) == {o \in [1..Cardinality(S) -> S] : \A i, j \in DOMAIN o : o[i] = o[j] => i = j}

\* variant: a loop over the files that ends after the first file
FirstFileOnly(fsys, d) == {<<n>> : n \in ParsedNames(fsys, d)}

\* the orders in which makeStencilled can range over the files of the package
FileOrders(fsys, d) == Orders(ParsedNames(fsys, d))

\* target := filepath.Join(stencilled, filepath.Base(path))
Target(stencilled, path) == Join(stencilled, <<Base(path)>>)

\* the loop of makeStencilled over the files in one order: [panic, out]
RECURSIVE emit(_, _, _, _, _)
emit(fsys, stencil, stencilled, r, order) ==
  IF Len(order) = 0 THEN [panic |-> FALSE, out |-> <<>>]
  ELSE LET path == Append(stencil, order[1])
           c == ReadFile(fsys, path)
           a == Apply(r, ParseAST(c))
           rest == emit(fsys, stencil, stencilled, r, Tail(order))
       IN  IF a.panic \/ rest.panic THEN [panic |-> TRUE, out |-> <<>>]
           ELSE [panic |-> FALSE,
                 out |-> <<[path |-> Target(stencilled, path), data |-> Printed(c, a.node)]>>
                         \o rest.out]

\* makeStencilled: [err, panic, out]
makeStencilled(fsys, stencil, stencilled, r, order) ==
  LET pd == ParseDir(fsys, stencil)
  IN  IF pd.err THEN [err |-> "errors parsing", panic |-> FALSE, out |-> <<>>]
      ELSE IF Cardinality(pd.pkgs) # 1
      THEN [err |-> "expected 1 package", panic |-> FALSE, out |-> <<>>]
      ELSE LET e == emit(fsys, stencil, stencilled, r, order)
           IN  [err |-> "", panic |-> e.panic, out |-> e.out]

(***************************************************************************)
(* srcRoot, processDir                                                     *)
(***************************************************************************)
RECURSIVE firstPrefix(_, _)
firstPrefix(d, i) ==
  IF i > Len(SrcDirs) THEN 0
  ELSE IF HasPrefix(d, SrcDirs[i]) THEN i
  ELSE firstPrefix(d, i + 1)

\* the second loop over srcs, from the i-th on
RECURSIVE sameFileRoot(_, _, _, _)
sameFileRoot(fsys, d, cands, i) ==
  IF i > Len(SrcDirs) THEN [err |-> "not in GOPATH", src |-> <<>>]
  ELSE IF ~StatOk(fsys, SrcDirs[i]) THEN [err |-> "couldn't stat Go src folder", src |-> <<>>]
  ELSE IF \E c \in cands : SameFile(c, SrcDirs[i]) THEN [err |-> "", src |-> SrcDirs[i]]
  ELSE sameFileRoot(fsys, d, cands, i + 1)

\* srcRoot: [err, src]
srcRoot(fsys, d) ==
  IF firstPrefix(d, 1) # 0 THEN [err |-> "", src |-> SrcDirs[firstPrefix(d, 1)]]
  ELSE LET cands == {a \in Ancestors(d) : Len(a) # 0 /\ Base(a) = "src"}
       IN  IF \E c \in cands : ~StatOk(fsys, c)
           THEN [err |-> "failed to stat parent dir", src |-> <<>>]
           ELSE sameFileRoot(fsys, d, cands, 1)

\* variant: a loop that looks for the vendor directory of d, os.Stat(v)
VendorHereOfVendor(fsys, d) == IsDir(fsys, Join(d, <<"vendor">>))

\* the test of the vendor loop of processDir at directory d: os.Stat(d)
VendorHere(fsys, d) == IsDir(fsys, d)

\* the vendor loop of processDir from d up to srcs
RECURSIVE vendorLoop(_, _, _, _)
vendorLoop(fsys, d, srcs, dflt) ==
  IF d = srcs THEN dflt
  ELSE IF VendorHere(fsys, d) THEN Join(d, <<"vendor">>)
  ELSE vendorLoop(fsys, Dir(d), srcs, dflt)

\* processDir's vendor
vendorFor(fsys, d, srcs) == vendorLoop(fsys, d, srcs, Join(d, <<"vendor">>))

\* variant: an output directory named after the stencil alone, the last
\* (Param, Spec) pair of the import path dropped
StencilledBare(vnd, path) == Join(vnd, SubSeq(path, 1, Len(path) - 2))

\* variant: roots without the vendor root
RootsOfSrcDirs(v) == SrcDirs

\* roots := append(build.Default.SrcDirs(), vendor)
Roots(v) == Append(SrcDirs, v)

\* filepath.Join(vendor, path), the directory of the specialized package
Stencilled(vnd, path) == Join(vnd, path)

(***************************************************************************)
(* The source tree the engine runs on.                                     *)
(***************************************************************************)
App == GOPATH \o <<"app">>
Cmd == App \o <<"cmd">>
Pkg == GOPATH \o <<"pkg">>
Sub == Pkg \o <<"sub">>
Empty == GOPATH \o <<"empty">>
Mixed == GOPATH \o <<"mixed">>
Bad == GOPATH \o <<"bad">>
Foo == <<"gopath", "srcfoo", "x">>
Fmt == GOROOT \o <<"fmt">>

\* builders of syntax trees
TypeSpec(name, type, pos) ==
  Node("TypeSpec", "", pos, [Name |-> <<Ident(name, pos + 1)>>, Type |-> <<type>>])

ValueSpec(name, type, pos) ==
  Node("ValueSpec", "", pos, [Names |-> <<Ident(name, pos + 1)>>, Type |-> <<type>>])

GenDecl(tok, specs, pos) == Node("GenDecl", tok, pos, [Specs |-> specs])

FieldList(list, pos) == Node("FieldList", "", pos, [List |-> list])

Field(names, type, pos) == Node("Field", "", pos, [Names |-> names, Type |-> <<type>>])

InterfaceType(methods, pos) ==
  Node("InterfaceType", "", pos, [Methods |-> <<FieldList(methods, pos + 1)>>])

FuncType(params, pos) == Node("FuncType", "", pos, [Params |-> <<FieldList(params, pos + 1)>>])

FuncDecl(name, params, body, pos) ==
  Node("FuncDecl", "", pos,
       [Name |-> <<Ident(name, pos + 1)>>,
        Type |-> <<FuncType(params, pos + 2)>>,
        Body |-> body])

BlockStmt(list, pos) == Node("BlockStmt", "", pos, [List |-> list])

MapType(key, value, pos) == Node("MapType", "", pos, [Key |-> <<key>>, Value |-> <<value>>])

StructType(fields, pos) ==
  Node("StructType", "", pos, [Fields |-> <<FieldList(fields, pos + 1)>>])

DeclStmt(decl, pos) == Node("DeclStmt", "", pos, [Decl |-> <<decl>>])

\* a comment group of one comment
CommentGroup(text, pos) ==
  Node("CommentGroup", "", pos, [List |-> <<Node("Comment", text, pos + 1, <<>>)>>])

\* a string literal
BasicLit(text, pos) == Node("BasicLit", text, pos, <<>>)

\* declaration d with doc comment doc
WithDoc(d, doc) == [d EXCEPT !.f = [Doc |-> <<doc>>] @@ @]

\* pkg/a.go:  type T interface{};  var Z T
PkgA ==
  GoFile("pkg", <<>>,
         <<GenDecl("type", <<TypeSpec("T", InterfaceType(<<>>, 12), 10)>>, 9),
           GenDecl("var", <<ValueSpec("Z", Ident("T", 23), 21)>>, 20)>>)

\* pkg/b.go:  var V T
PkgB == GoFile("pkg", <<>>, <<GenDecl("var", <<ValueSpec("V", Ident("T", 13), 11)>>, 10)>>)

\* pkg/a_test.go:  package pkg_test;  var W T
PkgATest == GoFile("pkg_test", <<>>, <<GenDecl("var", <<ValueSpec("W", Ident("T", 13), 11)>>, 10)>>)

\* pkg/sub/a.go:  type U T
SubA == GoFile("sub", <<>>, <<GenDecl("type", <<TypeSpec("U", Ident("T", 13), 11)>>, 10)>>)

\* the import paths a consumer file may hold
ImportMenu ==
  { <<"fmt">>,                            \* a package of GOROOT
    <<"pkg", "T", "int">>,                \* pkg with T -> int
    <<"pkg", "T", "int", "T", "str">>,    \* pkg with T given twice
    <<"pkg", "T", "int", "U">>,           \* an odd tail
    <<"nope", "T", "int">>,               \* no such package
    <<"empty", "T", "int">> }             \* a directory without Go files

RECURSIVE SeqsUpTo(_, _)
SeqsUpTo(S, n) ==
  IF n = 0 THEN {<<>>}
  ELSE LET shorter == SeqsUpTo(S, n - 1)
       IN  shorter \cup {Append(q, x) : q \in {t \in shorter : Len(t) = n - 1}, x \in S}

ImportLists == SeqsUpTo(ImportMenu, MaxImports)

AbsArg(p) == [abs |-> TRUE, p |-> p]

RelArg(p) == [abs |-> FALSE, p |-> p]

\* the argument lists Process may be called with
ArgLists ==
  { <<>>,
    <<AbsArg(Cmd \o <<"use.go">>)>>,
    <<AbsArg(Cmd)>>,
    <<AbsArg(App \o <<"main.go">>), RelArg(<<"use.go">>)>>,
    <<AbsArg(Cmd), AbsArg(Cmd \o <<"use.go">>)>>,
    <<AbsArg(LinkFrom \o <<"app", "cmd", "use.go">>)>>,
    <<AbsArg(Foo \o <<"use.go">>)>>,
    <<AbsArg(Foo \o <<"main.go">>)>>,
    <<AbsArg(App \o <<"use.go">>)>>,      \* no such file
    <<AbsArg(Cmd \o <<"README">>)>>,      \* no directory
    <<AbsArg(<<"work">>)>> }

\* the files of the source tree: imports are those of cmd/use.go; app/main.go
\* imports pkg with T -> str and has a syntax error after its imports; mixed holds two packages, bad a
\* file with a syntax error
TreeFiles(imports) ==
  (Append(Fmt, "a.go") :> GoFile("fmt", <<>>, <<>>))
    @@ (Append(Cmd, "use.go") :> GoFile("main", imports, <<>>))
    @@ (Append(Cmd, "use_test.go") :> GoFile("main", << <<"pkg", "U", "str">> >>, <<>>))
    @@ (Append(Cmd, "README") :> [ok |-> FALSE])
    @@ (Append(App, "main.go") :> BrokenBody(GoFile("main", << <<"pkg", "T", "str">> >>, <<>>)))
    @@ (Append(Foo, "use.go") :> GoFile("main", << <<"mixed", "T", "int">> >>, <<>>))
    @@ (Append(Foo, "main.go") :> GoFile("main", << <<"bad", "T", "int">> >>, <<>>))
    @@ (Append(Bad, "a.go") :> BrokenBody(GoFile("bad", <<>>, <<>>)))
    @@ (Append(Pkg, "a.go") :> PkgA)
    @@ (Append(Pkg, "b.go") :> PkgB)
    @@ (Append(Pkg, "a_test.go") :> PkgATest)
    @@ (Append(Sub, "a.go") :> SubA)
    @@ (Append(Mixed, "a.go") :> GoFile("mixed", <<>>, <<>>))
    @@ (Append(Mixed, "b.go") :> GoFile("other", <<>>, <<>>))

\* the mode of cmd/use.go
UseMode == 384   \* 0600

\* the source tree: parentVendor says whether app/vendor exists
Tree(imports, parentVendor) ==
  [dirs  |-> {<<>>, <<"goroot">>, GOROOT, Fmt, <<"gopath">>, GOPATH, App, Cmd, Pkg, Sub,
              Empty, Empty \o <<"x">>, Mixed, Bad, Dir(Foo), Foo, <<"work">>}
             \cup (IF parentVendor THEN {App \o <<"vendor">>} ELSE {}),
   files |-> TreeFiles(imports),
   modes |-> [p \in DOMAIN TreeFiles(imports) |->
                IF p = Append(Cmd, "use.go") THEN UseMode ELSE FilePerm]]

NoRet == [files |-> <<>>, err |-> ""]

NoRw == [in |-> <<>>, r |-> <<>>, out |-> <<>>, panic |-> FALSE, done |-> FALSE]

NoWalk == [orig |-> <<>>, del |-> {}, list |-> <<>>, index |-> 1, seen |-> <<>>]

Init ==
  /\ \E imports \in ImportLists, parentVendor \in BOOLEAN : fs = Tree(imports, parentVendor)
  /\ cwd = Cmd
  /\ paths = <<>>
  /\ format = FALSE
  /\ pc = "idle"
  /\ run = 0
  /\ dirs = <<>>
  /\ dir = <<>>
  /\ vendor = <<>>
  /\ roots = <<>>
  /\ files = <<>>
  /\ fl = <<>>
  /\ imps = <<>>
  /\ res = <<>>
  /\ ret = NoRet
  /\ widx = 0
  /\ err = ""
  /\ log = <<>>
  /\ hist = <<>>
  /\ rw = NoRw
  /\ status = 0
  /\ walk = NoWalk
  /\ vdir = <<>>

(***************************************************************************)
(* The program: Process, processStencil, processDir, doImports.            *)
(***************************************************************************)
ResetLocals ==
  /\ dirs' = <<>>
  /\ dir' = <<>>
  /\ vendor' = <<>>
  /\ roots' = <<>>
  /\ files' = <<>>
  /\ fl' = <<>>
  /\ imps' = <<>>
  /\ res' = <<>>

\* variant: a processStencil that returns the buffered descriptors with e
ReturnErrWithBuffer(e) ==
  /\ ret' = [files |-> res, err |-> e]
  /\ pc' = "returned"
  /\ ResetLocals

\* processStencil returns nil, e
ReturnErr(e) ==
  /\ ret' = [files |-> <<>>, err |-> e]
  /\ pc' = "returned"
  /\ ResetLocals

\* A call Process(paths, format)
Process ==
  /\ pc = "idle"
  /\ \E a \in ArgLists, w \in BOOLEAN : paths' = a /\ format' = w
  /\ pc' = "list"
  /\ run' = 1
  /\ UNCHANGED <<fs, cwd, engineLocals, ret, widx, err, log, hist, rw, status, walk, vdir>>

\* processStencil: dirs, err := listPackages(paths)
ListPackages ==
  /\ pc = "list"
  /\ LET lp == listPackages(fs, cwd, paths)
     IN  IF lp.err # "" THEN ReturnErr(lp.err)
         ELSE /\ dirs' = lp.dirs
              /\ pc' = "dirs"
              /\ UNCHANGED <<dir, vendor, roots, files, fl, imps, res, ret>>
  /\ UNCHANGED <<fs, cwd, paths, format, run, widx, err, log, hist, rw, status, walk, vdir>>

\* processStencil ranges over dirs (a Go map: any order); processDir up to
\* its loop over files
ProcessDir ==
  /\ pc = "dirs"
  /\ \E d \in DOMAIN dirs :
       LET sr == srcRoot(fs, d)
           v == vendorFor(fs, d, sr.src)
       IN  IF sr.err # "" THEN ReturnErr(sr.err)
           ELSE /\ dir' = d
                /\ vendor' = v
                /\ roots' = Roots(v)
                /\ files' = dirs[d]
                /\ dirs' = MapDel(dirs, d)
                /\ pc' = "files"
                /\ UNCHANGED <<fl, imps, res, ret>>
  /\ UNCHANGED <<fs, cwd, paths, format, run, widx, err, log, hist, rw, status, walk, vdir>>

\* processStencil: return res, nil
ProcessStencilReturn ==
  /\ pc = "dirs"
  /\ DOMAIN dirs = {}
  /\ ret' = [files |-> res, err |-> ""]
  /\ pc' = "returned"
  /\ ResetLocals
  /\ UNCHANGED <<fs, cwd, paths, format, run, widx, err, log, hist, rw, status, walk, vdir>>

\* processDir: f, err := parser.ParseFile(fs, fl, nil, parser.ImportsOnly)
ParseFile ==
  /\ pc = "files"
  /\ Len(files) > 0
  /\ LET f == Head(files)
     IN  IF ~IsFile(fs, f) \/ ~ParsesImports(ReadFile(fs, f)) THEN ReturnErr("parse failed")
         ELSE /\ fl' = f
              /\ imps' = ReadFile(fs, f).imports
              /\ files' = Tail(files)
              /\ pc' = "imports"
              /\ UNCHANGED <<dirs, dir, vendor, roots, res, ret>>
  /\ UNCHANGED <<fs, cwd, paths, format, run, widx, err, log, hist, rw, status, walk, vdir>>

\* processDir: return nil
ProcessDirReturn ==
  /\ pc = "files"
  /\ Len(files) = 0
  /\ pc' = "dirs"
  /\ dir' = <<>>
  /\ vendor' = <<>>
  /\ roots' = <<>>
  /\ UNCHANGED <<fs, cwd, paths, format, run, dirs, files, fl, imps, res, ret, widx, err,
                 log, hist, rw, status, walk, vdir>>

\* the paths of a list of File descriptors
PathsOf(fls) == [k \in DOMAIN fls |-> fls[k].path]

\* the history record of one import: out holds the paths of its descriptors
LogEntry(path, d, m) ==
  [dir |-> dir, fl |-> fl, imp |-> path, vendor |-> vendor, ok |-> d.ok,
   stencil |-> d.dir, r |-> d.r, out |-> PathsOf(m.out), err |-> m.err]

\* variant: an engine that keeps the parsed files of a stencil and hands the
\* trees an earlier emission has rewritten to the next one
CachedFiles(stencil) ==
  [p \in DOMAIN fs.files |->
     LET ks == {k \in DOMAIN res :
                  /\ Base(res[k].path) = Base(p)
                  /\ \E j \in DOMAIN log :
                       /\ log[j].ok
                       /\ log[j].stencil = stencil
                       /\ \E i \in DOMAIN log[j].out : log[j].out[i] = res[k].path}
     IN  IF Dir(p) = stencil /\ ks # {}
         THEN res[CHOOSE k \in ks : \A h \in ks : h <= k].data
         ELSE fs.files[p]]

ProcessImportCached ==
  /\ pc = "imports"
  /\ Len(imps) > 0
  /\ LET path == Head(imps)
         d == replacements(fs, roots, path)
     IN  IF ~d.ok
         THEN /\ imps' = Tail(imps)
              /\ log' = Append(log, LogEntry(path, d, [out |-> <<>>, err |-> ""]))
              /\ UNCHANGED <<pc, dirs, dir, vendor, roots, files, fl, res, ret>>
         ELSE \E order \in FileOrders(fs, d.dir) :
                LET m == makeStencilled([fs EXCEPT !.files = CachedFiles(d.dir)], d.dir,
                                        Stencilled(vendor, path), d.r, order)
                IN  /\ log' = Append(log, LogEntry(path, d, m))
                    /\ IF m.panic
                       THEN /\ pc' = "panic"
                            /\ UNCHANGED <<dirs, dir, vendor, roots, files, fl, imps, res, ret>>
                       ELSE IF m.err # "" THEN ReturnErr(m.err)
                       ELSE /\ res' = res \o m.out
                            /\ imps' = Tail(imps)
                            /\ UNCHANGED <<pc, dirs, dir, vendor, roots, files, fl, ret>>
  /\ UNCHANGED <<fs, cwd, paths, format, run, widx, err, hist, rw, status, walk, vdir>>

\* processDir: the body of the loop over f.Imports
ProcessImport ==
  /\ pc = "imports"
  /\ Len(imps) > 0
  /\ LET path == Head(imps)
         d == replacements(fs, roots, path)
     IN  IF ~d.ok
         THEN /\ imps' = Tail(imps)
              /\ log' = Append(log, LogEntry(path, d, [out |-> <<>>, err |-> ""]))
              /\ UNCHANGED <<pc, dirs, dir, vendor, roots, files, fl, res, ret>>
         ELSE \E order \in FileOrders(fs, d.dir) :
                LET m == makeStencilled(fs, d.dir, Stencilled(vendor, path), d.r, order)
                IN  /\ log' = Append(log, LogEntry(path, d, m))
                    /\ IF m.panic
                       THEN /\ pc' = "panic"
                            /\ UNCHANGED <<dirs, dir, vendor, roots, files, fl, imps, res, ret>>
                       ELSE IF m.err # "" THEN ReturnErr(m.err)
                       ELSE /\ res' = res \o m.out
                            /\ imps' = Tail(imps)
                            /\ UNCHANGED <<pc, dirs, dir, vendor, roots, files, fl, ret>>
  /\ UNCHANGED <<fs, cwd, paths, format, run, widx, err, hist, rw, status, walk, vdir>>

\* processDir: the loop over f.Imports ends
NextFile ==
  /\ pc = "imports"
  /\ Len(imps) = 0
  /\ pc' = "files"
  /\ fl' = <<>>
  /\ UNCHANGED <<fs, cwd, paths, format, run, dirs, dir, vendor, roots, files, imps, res,
                 ret, widx, err, log, hist, rw, status, walk, vdir>>

\* variant: a Process that does not look at the error of processStencil
FailedNever(r) == FALSE

\* Process: if err != nil, for the result r of processStencil
Failed(r) == r.err # ""

\* Process: files, err := processStencil(paths); if err != nil { return err }
ProcessStencilled ==
  /\ pc = "returned"
  /\ IF Failed(ret)
     THEN /\ err' = ret.err
          /\ pc' = "done"
          /\ widx' = 0
     ELSE /\ pc' = "write"
          /\ widx' = 1
          /\ err' = ""
  /\ UNCHANGED <<fs, cwd, paths, format, run, engineLocals, ret, log, hist, rw, status, walk, vdir>>

\* Process: the body of the loop over files (os.MkdirAll, ioutil.WriteFile)
WriteGenerated ==
  /\ pc = "write"
  /\ widx <= Len(ret.files)
  /\ LET f == ret.files[widx]
         made == MkdirAll(fs, Dir(f.path))
     IN  IF ~MkdirAllOk(fs, Dir(f.path))
         THEN /\ err' = "mkdir"
              /\ pc' = "done"
              /\ widx' = 0
              /\ fs' = fs
         ELSE IF ~WriteFileOk(made, f.path)
         THEN /\ err' = "write"
              /\ pc' = "done"
              /\ widx' = 0
              /\ fs' = made
         ELSE /\ fs' = WriteFile(made, f.path, f.data, FilePerm)
              /\ widx' = widx + 1
              /\ UNCHANGED <<pc, err>>
  /\ UNCHANGED <<cwd, paths, format, run, engineLocals, ret, log, hist, rw, status, walk, vdir>>

\* Process: if !format { return nil }; return doImports(paths)
WriteDone ==
  /\ pc = "write"
  /\ widx > Len(ret.files)
  /\ IF format
     THEN /\ pc' = "format"
          /\ widx' = 1
     ELSE /\ pc' = "done"
          /\ widx' = 0
  /\ UNCHANGED <<fs, cwd, paths, format, run, engineLocals, ret, err, log, hist, rw, status, walk, vdir>>

\* doImports: the body of the loop over paths
DoImports ==
  /\ pc = "format"
  /\ widx <= Len(paths)
  /\ LET p == Abs(cwd, paths[widx])
     IN  IF ~StatOk(fs, p)
         THEN /\ err' = "stat"
              /\ pc' = "done"
              /\ widx' = 0
              /\ fs' = fs
         ELSE IF IsDir(fs, p)
         THEN /\ widx' = widx + 1
              /\ UNCHANGED <<fs, pc, err>>
         ELSE IF ~Parses(ReadFile(fs, p))
         THEN /\ err' = "imports"
              /\ pc' = "done"
              /\ widx' = 0
              /\ fs' = fs
         ELSE /\ fs' = WriteFile(fs, p, Tidied(ReadFile(fs, p)), Mode(fs, p))
              /\ widx' = widx + 1
              /\ UNCHANGED <<pc, err>>
  /\ UNCHANGED <<cwd, paths, format, run, engineLocals, ret, log, hist, rw, status, walk, vdir>>

\* doImports: return nil
DoImportsReturn ==
  /\ pc = "format"
  /\ widx > Len(paths)
  /\ pc' = "done"
  /\ widx' = 0
  /\ UNCHANGED <<fs, cwd, paths, format, run, engineLocals, ret, err, log, hist, rw, status, walk, vdir>>

\* The same call of Process once more, after one that succeeded
ProcessAgain ==
  /\ pc = "done"
  /\ err = ""
  /\ run < MaxRuns
  /\ hist' = Append(hist, [files |-> ret.files, log |-> log])
  /\ run' = run + 1
  /\ pc' = "list"
  /\ ret' = NoRet
  /\ log' = <<>>
  /\ UNCHANGED <<fs, cwd, paths, format, engineLocals, widx, err, rw, status, walk, vdir>>

\* main after Process returned e: the status the command exits with (main
\* prints the error and returns; it calls os.Exit in neither case)
ExitStatus(e) == 0

\* main: Process has returned, the command terminates
Main ==
  /\ pc = "done"
  /\ pc' = "exited"
  /\ status' = ExitStatus(err)
  /\ UNCHANGED <<fs, cwd, paths, format, run, engineLocals, ret, widx, err, log, hist, rw,
                 walk, vdir>>

Next ==
  \/ Process
  \/ ListPackages
  \/ ProcessDir
  \/ ProcessStencilReturn
  \/ ParseFile
  \/ ProcessDirReturn
  \/ ProcessImport
  \/ NextFile
  \/ ProcessStencilled
  \/ WriteGenerated
  \/ WriteDone
  \/ DoImports
  \/ DoImportsReturn
  \/ ProcessAgain
  \/ Main

Spec == Init /\ [][Next]_vars

(***************************************************************************)
(* The rewriter on its own: apply.Apply(f, r.preReplace, nil) on the files *)
(* of a stencil, for every substitution map the decoder can return.        *)
(***************************************************************************)
\* the declarations a stencil file may hold, b the position of the first token
DeclKinds ==
  {"TypeA", "TypeB", "GroupXB", "GroupAX", "VarMap", "FuncF", "Struct", "FuncG", "FuncH",
   "DocTypeA", "VarStr"}

DeclAt(kind, b) ==
  CASE kind = "TypeA" ->    \* type A interface{}
         GenDecl("type", <<TypeSpec("A", InterfaceType(<<>>, b + 4), b + 1)>>, b)
    [] kind = "TypeB" ->    \* type B int
         GenDecl("type", <<TypeSpec("B", Ident("int", b + 4), b + 1)>>, b)
    [] kind = "GroupXB" ->  \* type ( X int; B int )
         GenDecl("type", <<TypeSpec("X", Ident("int", b + 4), b + 1),
                           TypeSpec("B", Ident("int", b + 8), b + 5)>>, b)
    [] kind = "GroupAX" ->  \* type ( A int; X int )
         GenDecl("type", <<TypeSpec("A", Ident("int", b + 4), b + 1),
                           TypeSpec("X", Ident("int", b + 8), b + 5)>>, b)
    [] kind = "VarMap" ->   \* var V map[interface{}]A
         GenDecl("var", <<ValueSpec("V", MapType(InterfaceType(<<>>, b + 5),
                                                 Ident("A", b + 8), b + 4), b + 1)>>, b)
    [] kind = "FuncF" ->    \* func F(x A, y interface{ M() }) {}
         FuncDecl("F",
                  <<Field(<<Ident("x", b + 6)>>, Ident("A", b + 7), b + 5),
                    Field(<<Ident("y", b + 9)>>,
                          InterfaceType(<<Field(<<Ident("M", b + 13)>>,
                                                FuncType(<<>>, b + 14), b + 12)>>, b + 10),
                          b + 8)>>,
                  <<BlockStmt(<<>>, b + 18)>>, b)
    [] kind = "Struct" ->   \* type S struct { A; b B }
         GenDecl("type",
                 <<TypeSpec("S", StructType(<<Field(<<>>, Ident("A", b + 7), b + 6),
                                              Field(<<Ident("b", b + 9)>>, Ident("B", b + 10),
                                                    b + 8)>>, b + 4), b + 1)>>, b)
    [] kind = "FuncG" ->    \* func G(x B)
         FuncDecl("G", <<Field(<<Ident("x", b + 6)>>, Ident("B", b + 7), b + 5)>>, <<>>, b)
    [] kind = "FuncH" ->    \* func H() { type A int }
         FuncDecl("H", <<>>,
                  <<BlockStmt(<<DeclStmt(GenDecl("type",
                                                 <<TypeSpec("A", Ident("int", b + 12), b + 9)>>,
                                                 b + 8), b + 7)>>, b + 6)>>, b)
    [] kind = "DocTypeA" -> \* // A  (a doc comment whose text is a key)
                            \* type A int
         WithDoc(GenDecl("type", <<TypeSpec("A", Ident("int", b + 4), b + 1)>>, b),
                 CommentGroup("A", b + 30))
    [] kind = "VarStr" ->   \* // B
                            \* var s = "A"  (a string literal whose text is a key)
         WithDoc(GenDecl("var",
                         <<Node("ValueSpec", "", b + 1,
                                [Names |-> <<Ident("s", b + 2)>>,
                                 Values |-> <<BasicLit("A", b + 4)>>])>>, b),
                 CommentGroup("B", b + 30))

\* the stencil file holding declarations of these kinds, in this order
StencilFile(kinds) ==
  GoFile("p", <<>>, [i \in DOMAIN kinds |-> DeclAt(kinds[i], 100 * i)])

StencilFiles == {StencilFile(ks) : ks \in SeqsUpTo(DeclKinds, MaxDecls)}

\* the substitution maps: the decoder never returns an empty one
Replacers ==
  LET none == "-"
      choice == [A : {none, "B", "int"}, B : {none, "A", "int"}, interface : {none, "A", "int"}]
      pick(c) == [k \in {x \in {"A", "B", "interface"} : c[x] # none} |-> c[k]]
  IN  {pick(c) : c \in choice} \ {<<>>}

InitRW ==
  /\ fs = [dirs |-> {<<>>}, files |-> <<>>, modes |-> <<>>]
  /\ cwd = <<>>
  /\ paths = <<>>
  /\ format = FALSE
  /\ pc = "rewrite"
  /\ run = 0
  /\ dirs = <<>>
  /\ dir = <<>>
  /\ vendor = <<>>
  /\ roots = <<>>
  /\ files = <<>>
  /\ fl = <<>>
  /\ imps = <<>>
  /\ res = <<>>
  /\ ret = NoRet
  /\ widx = 0
  /\ err = ""
  /\ log = <<>>
  /\ hist = <<>>
  /\ \E c \in StencilFiles, r \in Replacers : rw = [NoRw EXCEPT !.in = c, !.r = r]
  /\ status = 0
  /\ walk = NoWalk
  /\ vdir = <<>>

\* makeStencilled: apply.Apply(f, r.preReplace, nil), then format.Node
ApplyFile ==
  /\ pc = "rewrite"
  /\ ~rw.done
  /\ LET a == Apply(rw.r, ParseAST(rw.in))
     IN  rw' = [rw EXCEPT !.out = IF a.panic THEN <<>> ELSE a.node,
                          !.panic = a.panic,
                          !.done = TRUE]
  /\ UNCHANGED <<fs, cwd, paths, format, pc, run, engineLocals, ret, widx, err, log, hist,
                 status, walk, vdir>>

NextRW == ApplyFile

SpecRW == InitRW /\ [][NextRW]_vars

(***************************************************************************)
(* applyList on its own: the loop of application.applyList over the list   *)
(* of a parent's field, with a pre callback that calls ApplyCursor.Delete  *)
(* on the elements of a chosen set.                                        *)
(***************************************************************************)
\* ApplyCursor.Delete on the slice: the elements after index are copied one
\* place down, the last place is zeroed and the length is cut by one
Delete(list, index) ==
  LET last == Len(list)
      copied == [i \in 1..last |-> IF index <= i /\ i < last THEN list[i + 1] ELSE list[i]]
  IN  SubSeq(copied, 1, last - 1)

\* incr as apply returns it: 1, less one when the callback called Delete
Incr(deleted) == IF deleted THEN 0 ELSE 1

\* the lists walked: elements are named by their place in the list
Lists == {[i \in 1..n |-> i] : n \in 0..MaxLen}

InitList ==
  /\ fs = [dirs |-> {<<>>}, files |-> <<>>, modes |-> <<>>]
  /\ cwd = <<>>
  /\ paths = <<>>
  /\ format = FALSE
  /\ pc = "applyList"
  /\ run = 0
  /\ dirs = <<>>
  /\ dir = <<>>
  /\ vendor = <<>>
  /\ roots = <<>>
  /\ files = <<>>
  /\ fl = <<>>
  /\ imps = <<>>
  /\ res = <<>>
  /\ ret = NoRet
  /\ widx = 0
  /\ err = ""
  /\ log = <<>>
  /\ hist = <<>>
  /\ rw = NoRw
  /\ status = 0
  /\ \E l \in Lists : \E d \in SUBSET {l[i] : i \in DOMAIN l} :
       walk = [NoWalk EXCEPT !.orig = l, !.del = d, !.list = l]
  /\ vdir = <<>>

\* applyList: one turn of the loop; the callback is passed the element at
\* index and deletes it when it is one of del
ApplyListStep ==
  /\ pc = "applyList"
  /\ walk.index <= Len(walk.list)
  /\ LET x == walk.list[walk.index]
         deleted == x \in walk.del
     IN  walk' = [walk EXCEPT !.seen = Append(@, x),
                              !.list = IF deleted THEN Delete(@, walk.index) ELSE @,
                              !.index = NextIndex(@, Incr(deleted))]
  /\ UNCHANGED <<fs, cwd, paths, format, pc, run, engineLocals, ret, widx, err, log, hist,
                 rw, status, vdir>>

\* applyList: if index >= v.Len() { break }
ApplyListBreak ==
  /\ pc = "applyList"
  /\ walk.index > Len(walk.list)
  /\ pc' = "applied"
  /\ UNCHANGED <<fs, cwd, paths, format, run, engineLocals, ret, widx, err, log, hist,
                 rw, status, walk, vdir>>

NextList ==
  \/ ApplyListStep
  \/ ApplyListBreak

SpecList == InitList /\ [][NextList]_vars

(***************************************************************************)
(* processDir on its own, up to roots: srcRoot and the vendor loop, turn   *)
(* by turn, for the directories listPackages can hand to it.               *)
(***************************************************************************)
\* a directory that does not exist, under a sibling of GOPATH named srcbar
SrcBar == <<"gopath", "srcbar", "y">>

\* the directories processDir is called with: directories that exist, the
\* parents of file arguments that do not, directories reached through the
\* symbolic link and directories outside every source root
ConsumerDirs ==
  {<<>>, <<"gopath">>, <<"work">>, GOROOT, GOPATH, Fmt, App, Cmd, Pkg, Sub, Empty, Mixed, Bad,
   Dir(Foo), Foo, Foo \o <<"none">>, Dir(SrcBar), SrcBar,
   App \o <<"none">>, App \o <<"none", "deeper">>, Cmd \o <<"README">>,
   LinkFrom, LinkFrom \o <<"app", "cmd">>, LinkFrom \o <<"app", "none">>}

InitVendor ==
  /\ \E parentVendor \in BOOLEAN : fs = Tree(<<>>, parentVendor)
  /\ cwd = Cmd
  /\ paths = <<>>
  /\ format = FALSE
  /\ pc = "processDir"
  /\ run = 0
  /\ dirs = <<>>
  /\ dir \in ConsumerDirs
  /\ vendor = <<>>
  /\ roots = <<>>
  /\ files = <<>>
  /\ fl = <<>>
  /\ imps = <<>>
  /\ res = <<>>
  /\ ret = NoRet
  /\ widx = 0
  /\ err = ""
  /\ log = <<>>
  /\ hist = <<>>
  /\ rw = NoRw
  /\ status = 0
  /\ walk = NoWalk
  /\ vdir = <<>>

\* processDir: srcs, err := srcRoot(dir); vendor := filepath.Join(dir,
\* "vendor"); d := dir
SrcRoot ==
  /\ pc = "processDir"
  /\ IF srcRoot(fs, dir).err # ""
     THEN /\ err' = srcRoot(fs, dir).err
          /\ pc' = "failed"
          /\ UNCHANGED <<vendor, vdir>>
     ELSE /\ vendor' = Join(dir, <<"vendor">>)
          /\ vdir' = dir
          /\ pc' = "vendor"
          /\ err' = err
  /\ UNCHANGED <<fs, cwd, paths, format, run, dirs, dir, roots, files, fl, imps, res, ret,
                 widx, log, hist, rw, status, walk>>

\* processDir: one turn of the vendor loop, d != srcs
VendorStep ==
  /\ pc = "vendor"
  /\ vdir # srcRoot(fs, dir).src
  /\ IF VendorHere(fs, vdir)
     THEN /\ vendor' = Join(vdir, <<"vendor">>)
          /\ roots' = Roots(Join(vdir, <<"vendor">>))
          /\ pc' = "roots"
          /\ vdir' = vdir
     ELSE /\ vdir' = Dir(vdir)
          /\ UNCHANGED <<vendor, roots, pc>>
  /\ UNCHANGED <<fs, cwd, paths, format, run, dirs, dir, files, fl, imps, res, ret, widx,
                 err, log, hist, rw, status, walk>>

\* processDir: the vendor loop ends with d = srcs
VendorEnd ==
  /\ pc = "vendor"
  /\ vdir = srcRoot(fs, dir).src
  /\ roots' = Roots(vendor)
  /\ pc' = "roots"
  /\ UNCHANGED <<fs, cwd, paths, format, run, dirs, dir, vendor, files, fl, imps, res, ret,
                 widx, err, log, hist, rw, status, walk, vdir>>

NextVendor ==
  \/ SrcRoot
  \/ VendorStep
  \/ VendorEnd

\* processDir is one sequential function: it goes on while it can
SpecVendor == InitVendor /\ [][NextVendor]_vars /\ WF_vars(NextVendor)

(***************************************************************************)
(* listPackages on its own, for every sequence of arguments up to two.     *)
(***************************************************************************)
\* the arguments: files, test files, directories, relative paths, a file
\* and a directory that do not exist
ArgMenu ==
  {AbsArg(Cmd), AbsArg(Cmd \o <<"use.go">>), AbsArg(Cmd \o <<"use_test.go">>),
   RelArg(<<".">>), RelArg(<<"use.go">>), RelArg(<<"..">>), AbsArg(App \o <<"main.go">>),
   AbsArg(Pkg), AbsArg(App \o <<"use.go">>), AbsArg(Cmd \o <<"README">>)}

InitArgs ==
  /\ fs = Tree(<<>>, FALSE)
  /\ cwd = Cmd
  /\ paths \in SeqsUpTo(ArgMenu, 2)
  /\ format = FALSE
  /\ pc = "list"
  /\ run = 1
  /\ dirs = <<>>
  /\ dir = <<>>
  /\ vendor = <<>>
  /\ roots = <<>>
  /\ files = <<>>
  /\ fl = <<>>
  /\ imps = <<>>
  /\ res = <<>>
  /\ ret = NoRet
  /\ widx = 0
  /\ err = ""
  /\ log = <<>>
  /\ hist = <<>>
  /\ rw = NoRw
  /\ status = 0
  /\ walk = NoWalk
  /\ vdir = <<>>

NextArgs == ListPackages

SpecArgs == InitArgs /\ [][NextArgs]_vars

(***************************************************************************)
(* Properties of the engine.                                               *)
(***************************************************************************)
\* processStencil is running or has just returned: the filesystem is the one
\* the imports of log were decoded against
StencilPhase == pc \in {"dirs", "files", "imports", "returned", "panic"}

\* processStencil has returned its descriptors without error
Returned == pc \in {"returned", "write", "format", "done"} /\ ret.err = ""

\* the roots an import of log was decoded against
RootsOf(e) == Append(SrcDirs, e.vendor)

\* some root holds a directory named by the first n segments of path
ExistsPrefix(fsys, rts, path, n) ==
  \E i \in DOMAIN rts : IsDir(fsys, rts[i] \o SubSeq(path, 1, n))

\* the lengths of the prefixes of path left by peeling (Param, Spec) pairs
Peelings(path) == {n \in 1..Len(path) : (Len(path) - n) % 2 = 0}

\* the length of the longest such prefix that exists, 0 when none does
DecodedLen(fsys, rts, path) ==
  LET ns == {n \in Peelings(path) : ExistsPrefix(fsys, rts, path, n)}
  IN  IF ns = {} THEN 0 ELSE CHOOSE n \in ns : \A m \in ns : m <= n

\* the decoder finds no match for path
NoMatch(fsys, rts, path) == DecodedLen(fsys, rts, path) \in {0, Len(path)}

\* the paths of the descriptors of the imports of a log, in order
RECURSIVE Flat(_)
Flat(l) == IF Len(l) = 0 THEN <<>> ELSE l[1].out \o Flat(Tail(l))

\* C1: every File descriptor processStencil returns has the path
\* vendor root \o import path as written \o basename of a non-test source
\* file of the decoded stencil directory, the vendor root being the one
\* computed for the directory of the consumer file holding the import.
C1_OutputPath ==
  /\ \A j \in DOMAIN log : \A k \in DOMAIN log[j].out :
       /\ log[j].dir = Dir(log[j].fl)
       /\ \E n \in GoNames \ TestNames :
            /\ IsFile(fs, Append(log[j].stencil, n))
            /\ log[j].out[k] = log[j].vendor \o log[j].imp \o <<n>>
  /\ Returned => PathsOf(ret.files) = Flat(log)

\* C1's case: an import has been specialized from a stencil of two files
C1_Witness ==
  /\ pc = "returned"
  /\ ret.err = ""
  /\ \E j \in DOMAIN log : Len(log[j].out) = 2 /\ Len(log[j].imp) = 3

\* the imports of the first invocation that this one has decoded again
Repeated(i, j) ==
  /\ log[i].vendor = hist[1].log[j].vendor
  /\ log[i].imp = hist[1].log[j].imp
  /\ hist[1].log[j].out # <<>>

\* C2 as stated: a second invocation over the same paths returns the
\* descriptors of the first.
C2_SameDescriptors ==
  (run = 2 /\ pc = "returned") =>
     {ret.files[i] : i \in DOMAIN ret.files}
       = {hist[1].files[i] : i \in DOMAIN hist[1].files}

\* C2, amended: a second invocation over the same paths emits nothing for
\* an import the first one emitted descriptors for, the import now naming a
\* directory of the vendor root.
C2_SecondRunSkips ==
  run = 2 =>
    \A i \in DOMAIN log, j \in DOMAIN hist[1].log :
      Repeated(i, j) => ~log[i].ok /\ log[i].out = <<>> /\ log[i].err = ""

\* C2's case: the second invocation has decoded an import the first emitted
C2_Witness ==
  /\ run = 2
  /\ pc = "returned"
  /\ \E i \in DOMAIN log, j \in DOMAIN hist[1].log : Repeated(i, j)

\* the place of a file name in filename order
NameIdx(n) == CHOOSE i \in DOMAIN NameOrder : NameOrder[i] = n

\* C3 as stated: the files of one stencil are emitted in filename order.
C3_FilenameOrder ==
  \A j \in DOMAIN log : \A a, b \in DOMAIN log[j].out :
    a < b => NameIdx(Base(log[j].out[a])) < NameIdx(Base(log[j].out[b]))

\* C4: an import whose full path names an existing directory under a root
\* yields no descriptor and no error.
C4_NoMatchSilence ==
  StencilPhase =>
    \A j \in DOMAIN log :
      ExistsPrefix(fs, RootsOf(log[j]), log[j].imp, Len(log[j].imp))
        => ~log[j].ok /\ log[j].out = <<>> /\ log[j].err = ""

\* C4's case: an import of three segments or more that exists under the
\* vendor root, a shorter prefix of it existing too, was followed by another
C4_Witness ==
  /\ StencilPhase
  /\ \E j \in DOMAIN log :
       /\ j < Len(log)
       /\ Len(log[j].imp) >= 3
       /\ IsDir(fs, log[j].vendor \o log[j].imp)
       /\ ExistsPrefix(fs, RootsOf(log[j]), log[j].imp, Len(log[j].imp) - 2)

\* some prefix of path left by peeling pairs names a directory that holds a
\* Go package
SpecializesPackage(fsys, rts, path) ==
  \E n \in Peelings(path) \ {Len(path)} : \E i \in DOMAIN rts :
    /\ IsDir(fsys, rts[i] \o SubSeq(path, 1, n))
    /\ \E f \in GoNames \ TestNames : IsFile(fsys, Append(rts[i] \o SubSeq(path, 1, n), f))

\* C5 as stated: an import the decoder finds no match for, or one that
\* specializes no directory holding a Go package, yields no descriptor and
\* no error.
C5_SkipsNonPackages ==
  StencilPhase =>
    \A j \in DOMAIN log :
      (\/ NoMatch(fs, RootsOf(log[j]), log[j].imp)
       \/ ~SpecializesPackage(fs, RootsOf(log[j]), log[j].imp))
        => log[j].out = <<>> /\ log[j].err = ""

\* C5, amended: an import the decoder finds no match for is skipped: the
\* loop goes on with the next import, nothing is emitted and nothing is
\* returned.
C5_NoMatchSkipped ==
  [][(pc = "imports" /\ Len(imps) > 0 /\ NoMatch(fs, roots, Head(imps)))
       => /\ pc' = "imports"
          /\ imps' = Tail(imps)
          /\ res' = res
          /\ ret' = ret
          /\ fs' = fs]_vars

\* C5's case: an import of no existing package was skipped and the next
\* import of the file was decoded
C5_Witness ==
  \E j \in DOMAIN log :
    /\ j < Len(log)
    /\ log[j].imp = <<"nope", "T", "int">>
    /\ log[j].fl = log[j + 1].fl

\* the vendor root of C8: the vendor directory of the nearest directory from
\* d up to src, src excluded, that has one, d's own when none has
NearestVendor(fsys, d, src) ==
  LET as == {a \in Ancestors(d) :
               IsPrefixPath(src, a) /\ a # src /\ IsDir(fsys, Append(a, "vendor"))}
  IN  IF as = {} THEN Append(d, "vendor")
      ELSE Append(CHOOSE a \in as : \A b \in as : Len(b) <= Len(a), "vendor")

\* C8 as stated: the vendor root of a consumer directory is the vendor
\* directory of its nearest ancestor below the source root that has one.
C8_NearestVendor ==
  (pc \in {"files", "imports"} /\ IsPrefixPath(srcRoot(fs, dir).src, dir))
    => vendor = NearestVendor(fs, dir, srcRoot(fs, dir).src)

\* the Params of the pairs the decoder peels off path, last pair first
PeeledParams(fsys, rts, path) ==
  LET n == DecodedLen(fsys, rts, path)
      m == IF n = 0 THEN (Len(path) - 1) \div 2 ELSE (Len(path) - n) \div 2
  IN  [k \in 1..m |-> path[Len(path) - 2 * k + 1]]

\* the decoder peels two pairs of the same Param off path
PeelsTwice(fsys, rts, path) ==
  LET ps == PeeledParams(fsys, rts, path)
  IN  \E a, b \in DOMAIN ps : a < b /\ ps[a] = ps[b]

\* C9 as stated: an import path that gives the same Param twice fails with
\* "specialized twice" and nothing is emitted for it.
C9_SpecializedTwice ==
  StencilPhase =>
    \A j \in DOMAIN log :
      PeelsTwice(fs, RootsOf(log[j]), log[j].imp)
        => log[j].err = "specialized twice" /\ log[j].out = <<>>

(***************************************************************************)
(* Properties of the rewriter.                                             *)
(***************************************************************************)
\* the rewrite of rw.in has ended without a panic: rw.out is the emitted file
Rewritten == rw.done /\ ~rw.panic

\* the values of a substitution map
Values(r) == {r[k] : k \in DOMAIN r}

\* the names the top-level type declarations of a file declare
TopLevelTypes(f) ==
  UNION {{d.f.Specs[i].f.Name[1].name :
            i \in {x \in DOMAIN d.f.Specs : d.f.Specs[x].k = "TypeSpec"}} :
         d \in {f.f.Decls[j] : j \in {y \in DOMAIN f.f.Decls : f.f.Decls[y].k = "GenDecl"}}}

\* the identifier nodes of a tree
RECURSIVE IdentNodes(_)
IdentNodes(n) ==
  (IF n.k = "Ident" THEN {n} ELSE {})
    \cup UNION {UNION {IdentNodes(n.f[nm][i]) : i \in DOMAIN n.f[nm]} : nm \in DOMAIN n.f}

IdentNames(n) == {x.name : x \in IdentNodes(n)}

\* the interface type literals of a tree: position, whether one declares no
\* method, whether it is the right-hand side of a type specification
RECURSIVE InterfaceSites(_, _)
InterfaceSites(n, parent) ==
  (IF n.k = "InterfaceType"
   THEN {[pos |-> n.pos, empty |-> Kids(n.f.Methods[1], "List") = <<>>,
          rhs |-> parent = "TypeSpec"]}
   ELSE {})
    \cup UNION {UNION {InterfaceSites(n.f[nm][i], n.k) : i \in DOMAIN n.f[nm]} :
                nm \in DOMAIN n.f}

\* C6 as stated: no top-level type declaration of the emitted file declares
\* a key of r.
C6_NoKeyDeclared ==
  Rewritten => \A k \in DOMAIN rw.r : k \notin TopLevelTypes(rw.out)

\* C6, amended: no top-level type declaration of the emitted file declares
\* a key of r that is not also a value of r.
C6_NoPureKeyDeclared ==
  Rewritten => \A k \in DOMAIN rw.r \ Values(rw.r) : k \notin TopLevelTypes(rw.out)

\* C6's case: the stencil declares, second in a group whose first name is no
\* key, a key that is no value, and the file was rewritten
C6_Witness ==
  /\ Rewritten
  /\ "B" \in DOMAIN rw.r \ Values(rw.r)
  /\ \E i \in DOMAIN rw.in.decls :
       /\ rw.in.decls[i].k = "GenDecl"
       /\ Len(rw.in.decls[i].f.Specs) = 2
       /\ rw.in.decls[i].f.Specs[2].f.Name[1].name = "B"
       /\ \E j \in DOMAIN rw.out.f.Decls : rw.out.f.Decls[j].pos = rw.in.decls[i].pos

\* C7 as stated: no identifier of the emitted file is named by a key of r.
C7_NoKeyIdent ==
  Rewritten => \A k \in DOMAIN rw.r : k \notin IdentNames(rw.out)

\* C7, amended: no identifier of the emitted file is named by a key of r
\* that is not also a value of r.
C7_NoPureKeyIdent ==
  Rewritten => \A k \in DOMAIN rw.r \ Values(rw.r) : k \notin IdentNames(rw.out)

\* C7's case: a key that is no value names an identifier of the stencil in a
\* declaration that the emitted file keeps
C7_Witness ==
  /\ Rewritten
  /\ \E k \in DOMAIN rw.r \ Values(rw.r) : \E i \in DOMAIN rw.in.decls :
       /\ k \in IdentNames(rw.in.decls[i])
       /\ \E j \in DOMAIN rw.out.f.Decls :
            /\ rw.out.f.Decls[j].pos = rw.in.decls[i].pos
            /\ rw.r[k] \in IdentNames(rw.out.f.Decls[j])

\* C10 as stated: an interface type literal is replaced, by an identifier
\* named r["interface"] at its position, exactly when r has the key
\* "interface", the literal declares no method and it is not the right-hand
\* side of a type specification; otherwise it is left in place.
C10_EmptyInterfaceOnly ==
  Rewritten =>
    \A s \in InterfaceSites(ParseAST(rw.in), "application") :
      IF "interface" \in DOMAIN rw.r /\ s.empty /\ ~s.rhs
      THEN /\ \A t \in InterfaceSites(rw.out, "application") : t.pos # s.pos
           /\ \A x \in IdentNodes(rw.out) : x.pos = s.pos => x.name = rw.r["interface"]
      ELSE \A x \in IdentNodes(rw.out) : x.pos # s.pos

(***************************************************************************)
(* Properties of the engine: emission, listing, errors.                    *)
(***************************************************************************)
\* the names of the Go source files of directory d that are no test files
SourceNames(fsys, d) == {n \in GoNames \ TestNames : IsFile(fsys, Append(d, n))}

\* the descriptor of source file n of the stencil of import e of log: the
\* file rewritten on its own, under the name n in the specialized directory
Specialized(fsys, e, n) ==
  LET c == ReadFile(fsys, Append(e.stencil, n))
  IN  [path |-> e.vendor \o e.imp \o <<n>>, data |-> Printed(c, Apply(e.r, ParseAST(c)).node)]

\* the descriptors buffered for the import processed last
LastEmitted == SubSeq(res, Len(res) - Len(log[Len(log)].out) + 1, Len(res))

\* C11: for an import that decodes to a stencil, the descriptors emitted are
\* one per source file of the stencil directory that is no _test.go file,
\* each the rewrite of that file alone, and none comes from a _test.go file.
C11_OneDescriptorPerFile ==
  (pc = "imports" /\ Len(log) > 0 /\ log[Len(log)].ok) =>
    LET e == log[Len(log)]
        names == SourceNames(fs, e.stencil)
    IN  /\ Len(e.out) = Cardinality(names)
        /\ PathsOf(LastEmitted) = e.out
        /\ \A n \in names : \E k \in DOMAIN LastEmitted : LastEmitted[k] = Specialized(fs, e, n)
        /\ \A k \in DOMAIN LastEmitted : ~HasSuffixTestGo(Base(LastEmitted[k].path))

\* C11's case: a stencil of two source files and a test file was emitted
C11_Witness ==
  /\ pc = "imports"
  /\ Len(log) > 0
  /\ log[Len(log)].ok
  /\ Len(log[Len(log)].out) = 2
  /\ IsFile(fs, Append(log[Len(log)].stencil, "a_test.go"))

\* the arguments that name the non-test Go source files of directory d, in
\* filename order
FileArgs(fsys, d) ==
  LET names == SelectSeq(NameOrder, LAMBDA n : n \in SourceNames(fsys, d))
  IN  [i \in 1..Len(names) |-> AbsArg(Append(d, names[i]))]

\* the imports of the files these arguments name, file by file, in order
RECURSIVE ImportsOf(_, _)
ImportsOf(fsys, args) ==
  IF Len(args) = 0 THEN <<>>
  ELSE LET f == Head(args).p
           is == ReadFile(fsys, f).imports
       IN  [i \in 1..Len(is) |-> [dir |-> Dir(f), fl |-> f, imp |-> is[i]]]
             \o ImportsOf(fsys, Tail(args))

\* the imports processStencil has processed, with their files
Processed == [j \in DOMAIN log |-> [dir |-> log[j].dir, fl |-> log[j].fl, imp |-> log[j].imp]]

\* C12: an empty path list, the working directory as the one argument and
\* the list of the non-test Go files of the working directory are listed to
\* the same map of directories, and processStencil called with any of them
\* processes the imports of exactly these files, in order.
C12_DefaultsToCwd ==
  /\ pc = "list" =>
        /\ listPackages(fs, cwd, <<>>) = listPackages(fs, cwd, <<AbsArg(cwd)>>)
        /\ listPackages(fs, cwd, <<AbsArg(cwd)>>) = listPackages(fs, cwd, FileArgs(fs, cwd))
  /\ (pc = "returned" /\ ret.err = "" /\ paths \in {<<>>, <<AbsArg(cwd)>>, FileArgs(fs, cwd)})
        => Processed = ImportsOf(fs, FileArgs(fs, cwd))

\* C12's case: processStencil, called with no path, has returned descriptors
\* for the working directory, which holds a test file too
C12_Witness ==
  /\ pc = "returned"
  /\ paths = <<>>
  /\ Len(ret.files) > 0
  /\ IsFile(fs, Append(cwd, "use_test.go"))

\* the errors of the steps of processStencil
EngineErrors ==
  {"readdir", "not in GOPATH", "parse failed", "errors parsing", "expected 1 package"}

C13_WitnessListing == pc = "returned" /\ ret.err = "readdir"

C13_WitnessSrcRoot == pc = "returned" /\ ret.err = "not in GOPATH"

C13_WitnessParse == pc = "returned" /\ ret.err = "parse failed"

C13_WitnessStencil == pc = "returned" /\ ret.err = "errors parsing"

\* Process has returned
ProcessDone == pc \in {"done", "exited"}

\* descriptor f is on disk
Written(fsys, f) == IsFile(fsys, f.path) /\ ReadFile(fsys, f.path) = f.data

\* C14 as stated: after a first invocation of Process that returns an error
\* none of the files it generated is on disk, and after an invocation that
\* returns nil all of them are.
C14_AllOrNothing ==
  /\ (ProcessDone /\ run = 1 /\ err # "") =>
        \A k \in DOMAIN ret.files : ~IsFile(fs, ret.files[k].path)
  /\ (ProcessDone /\ err = "") => \A k \in DOMAIN ret.files : Written(fs, ret.files[k])

\* C15 as stated: the command exits with status zero when Process returned
\* nil and with a status other than zero when Process returned an error.
C15_ExitStatus ==
  pc = "exited" => (status = 0 <=> err = "")

\* source root s is an ancestor of directory d: by path components, or some
\* ancestor of d is the same file as s
IsUnder(d, s) == IsPrefixPath(s, d) \/ \E a \in Ancestors(d) : SameFile(a, s)

\* the directories processStencil passes to processDir, and so to srcRoot
ListedDirs ==
  IF pc \in {"idle", "rewrite"} \/ listPackages(fs, cwd, paths).err # "" THEN {}
  ELSE DOMAIN listPackages(fs, cwd, paths).dirs

\* C16 as stated: srcRoot(dir) returns a source root only if it is an
\* ancestor of dir, and fails with "not in GOPATH" exactly when no source
\* root is an ancestor of dir.
C16_AncestorRoot ==
  \A d \in ListedDirs :
    /\ srcRoot(fs, d).err = "" => IsUnder(d, srcRoot(fs, d).src)
    /\ srcRoot(fs, d).err = "not in GOPATH" <=> ~\E i \in DOMAIN SrcDirs : IsUnder(d, SrcDirs[i])

\* a substitution map as the set of its (Param, Spec) pairs
Pairs(r) == {<<k, r[k]>> : k \in DOMAIN r}

\* the (Param, Spec) pairs peeled off path to leave its first n segments
PeeledPairs(path, n) ==
  {<<path[n + 2 * k - 1], path[n + 2 * k]>> : k \in 1..((Len(path) - n) \div 2)}

\* the first root, in list order, that holds the first n segments of path
FirstRoot(fsys, rts, path, n) ==
  rts[CHOOSE i \in DOMAIN rts :
        /\ IsDir(fsys, rts[i] \o SubSeq(path, 1, n))
        /\ \A h \in 1..(i - 1) : ~IsDir(fsys, rts[h] \o SubSeq(path, 1, n))]

\* C17 as stated: an import whose full path exists under no root decodes to
\* the longest prefix left by peeling pairs that exists under a root, taken
\* from the first such root, with a map of exactly the peeled pairs, and to
\* no match when no such prefix exists.
C17_ExactPairs ==
  StencilPhase =>
    \A j \in DOMAIN log :
      LET path == log[j].imp
          rts == RootsOf(log[j])
          n == DecodedLen(fs, rts, path)
      IN  ~ExistsPrefix(fs, rts, path, Len(path)) =>
            IF n = 0 THEN ~log[j].ok
            ELSE /\ log[j].ok
                 /\ log[j].stencil = FirstRoot(fs, rts, path, n) \o SubSeq(path, 1, n)
                 /\ Pairs(log[j].r) = PeeledPairs(path, n)

\* the package names the non-test source files of directory d declare
PackagesOf(fsys, d) == {ReadFile(fsys, Append(d, n)).pkg : n \in SourceNames(fsys, d)}

\* every non-test source file of directory d parses
AllParse(fsys, d) == \A n \in SourceNames(fsys, d) : Parses(ReadFile(fsys, Append(d, n)))

\* C18: when the non-test source files of the decoded stencil directory
\* declare a number of packages other than one, makeStencilled returns an
\* error and appends no descriptor; it emits descriptors only when they
\* declare exactly one, and fails with "expected 1 package" only otherwise.
C18_ExactlyOnePackage ==
  StencilPhase =>
    \A j \in DOMAIN log :
      log[j].ok =>
        LET pkgs == PackagesOf(fs, log[j].stencil)
        IN  /\ Cardinality(pkgs) # 1 => log[j].err # "" /\ log[j].out = <<>>
            /\ Len(log[j].out) > 0 => Cardinality(pkgs) = 1
            /\ AllParse(fs, log[j].stencil) =>
                  (log[j].err = "expected 1 package" <=> Cardinality(pkgs) # 1)

\* C18's case: a stencil directory of two packages was refused
C18_Witness ==
  /\ pc = "returned"
  /\ ret.err = "expected 1 package"
  /\ ret.files = <<>>
  /\ Len(log) > 0
  /\ log[Len(log)].ok
  /\ Cardinality(PackagesOf(fs, log[Len(log)].stencil)) = 2

\* C19: the filesystem changes only in the loops of Process that follow a
\* processStencil that returned without error, processStencil itself
\* (listing, decoding, parsing, rewriting) changes no file and no directory,
\* and the working directory never changes.
C19_EngineOnlyReads ==
  [][/\ cwd' = cwd
     /\ fs' # fs => pc \in {"write", "format"} /\ ret.err = "" /\ res = <<>> /\ imps = <<>>
     /\ pc \in {"idle", "list", "dirs", "files", "imports", "returned"} => fs' = fs]_vars

\* C19's case: processStencil has returned descriptors and Process has
\* written the first of them
C19_Witness ==
  /\ pc = "write"
  /\ widx = 2
  /\ Len(log) > 0
  /\ Written(fs, ret.files[1])

\* the files the paths of Process name
PathFiles(fsys) ==
  {Real(Abs(cwd, paths[i])) : i \in {k \in DOMAIN paths : IsFile(fsys, Abs(cwd, paths[k]))}}

\* the files whose content the step changes or creates
Touched ==
  {p \in DOMAIN fs'.files : p \notin DOMAIN fs.files \/ fs'.files[p] # fs.files[p]}

\* the generated files and the directories are in place
Generated(fsys) == ret.err = "" /\ \A k \in DOMAIN ret.files : Written(fsys, ret.files[k])

\* every file the paths name holds the output of goimports
AllTidy(fsys) == \A p \in PathFiles(fsys) : fsys.files[p].tidy

\* C20 as stated: when format is true and generation succeeds, Process
\* rewrites every path that is no directory with the output of goimports.
C20_FormatsEveryPath ==
  (ProcessDone /\ format /\ ret.err = "" /\ err \notin {"mkdir", "write"}) => AllTidy(fs)

\* C20, amended: a path of paths is written only by doImports, with format
\* true, after all generated files were written, with the output of
\* goimports and its mode kept; a directory argument leaves the filesystem
\* as it is; when Process returns nil with format true, every path that is
\* no directory has been rewritten.
C20_FormatsAfterGenerating ==
  [][/\ \A p \in Touched :
          IF pc = "format"
          THEN /\ format
               /\ Generated(fs)
               /\ Touched = {Real(Abs(cwd, paths[widx]))}
               /\ p \in DOMAIN fs.files
               /\ fs'.files[p] = Tidied(fs.files[p])
          ELSE pc = "write" /\ p \notin PathFiles(fs)
     /\ \A p \in DOMAIN fs.files : fs'.modes[p] = fs.modes[p]
     /\ (pc = "format" /\ widx <= Len(paths) /\ IsDir(fs, Abs(cwd, paths[widx]))) => fs' = fs
     /\ (ProcessDone /\ format /\ err = "")' => AllTidy(fs)']_vars

\* C20's case: Process, called with format true on a directory and a file
\* of mode 0600, has generated files and returned nil
C20_Witness ==
  /\ pc = "done"
  /\ err = ""
  /\ format
  /\ paths = <<AbsArg(Cmd), AbsArg(Cmd \o <<"use.go">>)>>
  /\ Len(ret.files) > 0
  /\ ReadFile(fs, Cmd \o <<"use.go">>).tidy
  /\ Mode(fs, Cmd \o <<"use.go">>) = UseMode

(***************************************************************************)
(* Properties of the traversal and of the rewriter's frame.                *)
(***************************************************************************)
\* the elements of list that are not in set S, in order
Without(list, S) == SelectSeq(list, LAMBDA x : x \notin S)

\* C21: when the callback deletes elements of a list through Delete, every
\* element of the original list is passed to the callback exactly once, in
\* the original order, and the list afterwards is the original list without
\* the deleted elements, their order kept; this for every subset deleted.
C21_DeletionKeepsSiblings ==
  LET n == Len(walk.seen)
  IN  /\ n <= Len(walk.orig)
      /\ walk.seen = SubSeq(walk.orig, 1, n)
      /\ walk.list = Without(walk.seen, walk.del) \o SubSeq(walk.orig, n + 1, Len(walk.orig))
      /\ pc = "applied" =>
            /\ walk.seen = walk.orig
            /\ walk.list = Without(walk.orig, walk.del)

\* C21's case: the first element, its neighbour and the last element of a
\* list of four were deleted and the walk has ended
C21_Witness ==
  /\ pc = "applied"
  /\ Len(walk.orig) = 4
  /\ walk.del = {1, 2, 4}
  /\ Len(walk.seen) = 4

\* name k after one lookup in r
Once(r, k) == IF k \in DOMAIN r THEN r[k] ELSE k

\* the kinds of the declarations of the stencil file being rewritten
KindsIn(c) == {k \in DeclKinds : \E i \in DOMAIN c.decls : c.decls[i] = DeclAt(k, 100 * i)}

\* C22: the rewrite is one simultaneous pass: an identifier of the stencil
\* that the emitted file keeps is named by one lookup of its name in r,
\* also when the new name is a key of r, every identifier of the emitted
\* file stands where an identifier or an interface literal of the stencil
\* stood, and the identifier put in place of an interface literal is named
\* r["interface"], not looked up again.
C22_SinglePass ==
  Rewritten =>
    LET ins == IdentNodes(ParseAST(rw.in))
        sites == InterfaceSites(ParseAST(rw.in), "application")
    IN  \A y \in IdentNodes(rw.out) :
          /\ \A x \in ins : x.pos = y.pos => y.name = Once(rw.r, x.name)
          /\ \A s \in sites : s.pos = y.pos => y.name = rw.r["interface"]
          /\ \E z \in ins \cup sites : z.pos = y.pos

\* C22's case: r swaps A and B and the stencil type S struct { A; b B } was
\* rewritten
C22_Witness ==
  /\ Rewritten
  /\ rw.r = [A |-> "B", B |-> "A"]
  /\ "Struct" \in KindsIn(rw.in)
  /\ {"A", "B"} \subseteq IdentNames(rw.out)

\* r = {interface -> A, A -> int}: an interface literal of the stencil was
\* replaced by an identifier named by a key of r
C22_WitnessInterface ==
  /\ Rewritten
  /\ rw.r = [interface |-> "A", A |-> "int"]
  /\ "VarMap" \in KindsIn(rw.in)
  /\ "A" \in IdentNames(rw.out)

\* the general declarations of a tree, at any depth
RECURSIVE GenDeclNodes(_)
GenDeclNodes(n) ==
  (IF n.k = "GenDecl" THEN {n} ELSE {})
    \cup UNION {UNION {GenDeclNodes(n.f[nm][i]) : i \in DOMAIN n.f[nm]} : nm \in DOMAIN n.f}

\* the first specification of declaration d is a type specification that
\* declares a key of r
FirstIsKey(r, d) ==
  /\ Len(d.f.Specs) > 0
  /\ d.f.Specs[1].k = "TypeSpec"
  /\ d.f.Specs[1].f.Name[1].name \in DOMAIN r

\* the positions of the nodes of a list
PosOf(list) == [i \in DOMAIN list |-> list[i].pos]

\* declaration o of the emitted file holds the specifications of declaration
\* d of the stencil, the names they declare looked up in r
SameSpecs(r, d, o) ==
  /\ PosOf(o.f.Specs) = PosOf(d.f.Specs)
  /\ \A i \in DOMAIN d.f.Specs :
       d.f.Specs[i].k = "TypeSpec" =>
         o.f.Specs[i].f.Name[1].name = Once(r, d.f.Specs[i].f.Name[1].name)

RECURSIVE TextNodes(_)
TextNodes(n) ==
  (IF n.k \in {"Comment", "BasicLit"} THEN {n} ELSE {})
    \cup UNION {UNION {TextNodes(n.f[nm][i]) : i \in DOMAIN n.f[nm]} : nm \in DOMAIN n.f}

\* C24: the text of every comment and of every string literal of the
\* emitted file is the text it has in the stencil, also when it is a key of
\* r, and the comment list of the file is the one of the stencil, so that
\* the doc comment of a deleted type declaration is in the emitted file.
C24_TextUntouched ==
  Rewritten =>
    LET in == ParseAST(rw.in)
    IN  /\ \A y \in TextNodes(rw.out) : y \in TextNodes(in)
        /\ rw.out.f.Comments = in.f.Comments
        /\ \A i \in DOMAIN rw.in.decls :
             Kids(rw.in.decls[i], "Doc") # <<>> =>
               \E j \in DOMAIN rw.out.f.Comments :
                 rw.out.f.Comments[j] = rw.in.decls[i].f.Doc[1]
        /\ Printed(rw.in, rw.out).comments = rw.in.comments

\* C24's case: with A and B keys of r, the declaration of A under the doc
\* comment "A" was deleted and the declaration of the string "A" under
\* the comment "B" was kept
C24_Witness ==
  /\ Rewritten
  /\ {"A", "B"} \subseteq DOMAIN rw.r
  /\ rw.in = StencilFile(<<"DocTypeA", "VarStr">>)
  /\ Len(rw.out.f.Decls) = 1
  /\ \E y \in TextNodes(rw.out.f.Decls[1]) : y.k = "BasicLit" /\ y.name = "A"
  /\ \E y \in TextNodes(rw.out) : y.k = "Comment" /\ y.name = "A"

\* the embedded fields of a tree: the fields that have a type and no name
RECURSIVE EmbeddedFields(_)
EmbeddedFields(n) ==
  (IF n.k = "Field" /\ Kids(n, "Names") = <<>> /\ Kids(n, "Type") # <<>> THEN {n} ELSE {})
    \cup UNION {UNION {EmbeddedFields(n.f[nm][i]) : i \in DOMAIN n.f[nm]} : nm \in DOMAIN n.f}

\* C25 as stated: an identifier that is the type of an embedded field keeps
\* its name in the emitted file, also when the name is a key of r.
C25_EmbeddedKept ==
  Rewritten =>
    \A x \in EmbeddedFields(ParseAST(rw.in)) : \A y \in EmbeddedFields(rw.out) :
      (x.pos = y.pos /\ x.f.Type[1].k = "Ident") => y.f.Type[1].name = x.f.Type[1].name

(***************************************************************************)
(* Properties of the engine: listing, output paths, termination.           *)
(***************************************************************************)
\* the arguments listPackages ranges over, made absolute
Listed(wd, args) ==
  LET as == IF Len(args) = 0 THEN <<RelArg(<<".">>)>> ELSE args
  IN  [i \in DOMAIN as |-> Abs(wd, as[i])]

\* the elements of a sequence
Range(q) == {q[i] : i \in DOMAIN q}

\* the paths the arguments cs contribute to directory k: the arguments
\* ending in .go whose parent is k, and the non-test Go entries of k when k
\* is itself an argument
Contributed(fsys, cs, k) ==
  {cs[i] : i \in {j \in DOMAIN cs : HasSuffixGo(Base(cs[j])) /\ Dir(cs[j]) = k}}
    \cup (IF \E i \in DOMAIN cs : ~HasSuffixGo(Base(cs[i])) /\ cs[i] = k
          THEN {Append(k, n) : n \in SourceNames(fsys, k)}
          ELSE {})

\* the elements of a occur in b, in the order of a
RECURSIVE IsSubSeq(_, _)
IsSubSeq(a, b) ==
  IF Len(a) = 0 THEN TRUE
  ELSE IF Len(b) = 0 THEN FALSE
  ELSE IF Head(a) = Head(b) THEN IsSubSeq(Tail(a), Tail(b))
  ELSE IsSubSeq(a, Tail(b))

\* C26 as stated: listPackages returns a map from directories to paths of
\* files directly in them, an argument ending in .go grouped under its
\* parent in argument order, any other argument contributing exactly its
\* immediate entries named *.go and not *_test.go, and returns an error
\* with no map when a directory cannot be read.
C26_PathListing ==
  pc \in {"dirs", "returned"} =>
    LET lp == [err |-> ret.err, dirs |-> dirs]
        cs == Listed(cwd, paths)
        gos == SelectSeq(cs, LAMBDA c : HasSuffixGo(Base(c)))
    IN  /\ lp.err # "" <=> \E i \in DOMAIN cs : ~HasSuffixGo(Base(cs[i])) /\ ~IsDir(fs, cs[i])
        /\ lp.err # "" => lp.dirs = <<>>
        /\ lp.err = "" =>
             /\ DOMAIN lp.dirs
                  = {IF HasSuffixGo(Base(cs[i])) THEN Dir(cs[i]) ELSE cs[i] : i \in DOMAIN cs}
             /\ \A k \in DOMAIN lp.dirs :
                  /\ Range(lp.dirs[k]) = Contributed(fs, cs, k)
                  /\ \A i \in DOMAIN lp.dirs[k] : Dir(lp.dirs[k][i]) = k
                  /\ IsSubSeq(SelectSeq(gos, LAMBDA c : Dir(c) = k), lp.dirs[k])

\* a rewrite in which ApplyCursor.Delete is called on a node that is no
\* element of a list: a general declaration under a declaration statement
\* whose first specification declares a key of r
DeletesOutsideList(r, n) ==
  \E d \in GenDeclNodes(n) :
    /\ FirstIsKey(r, d)
    /\ \A i \in DOMAIN n.f.Decls : n.f.Decls[i].pos # d.pos

\* C27 as stated: apply.Apply with preReplace runs to completion on every
\* stencil file and every substitution map, and Delete is called only on
\* elements of a list, also for a type declaration inside a function body.
C27_NeverPanics ==
  rw.done => ~rw.panic /\ ~DeletesOutsideList(rw.r, ParseAST(rw.in))

\* C28 as stated: no two File descriptors of the list one invocation of
\* processStencil returns have the same output path.
C28_UniquePaths ==
  pc = "returned" =>
    \A i, j \in DOMAIN ret.files : ret.files[i].path = ret.files[j].path => i = j

\* C29: the vendor loop of processDir ends: for every directory srcRoot
\* succeeds on, whether the root was matched as an ancestor, by string
\* prefix or through a symbolic link, the loop is left after finitely many
\* turns, with the roots processDir goes on with.
C29_VendorLoopEnds ==
  (pc = "vendor") ~> (pc = "roots" /\ vendor = vendorFor(fs, dir, srcRoot(fs, dir).src))

\* C29's case: the loop has ended for a directory that does not exist and
\* whose root was matched by string prefix, above that root
C29_Witness ==
  /\ pc = "roots"
  /\ dir = SrcBar
  /\ srcRoot(fs, dir).src = GOPATH
  /\ ~IsPrefixPath(GOPATH, vdir)
  /\ vendor = <<"gopath", "vendor">>

\* the loop has ended for a directory whose root was matched through the
\* symbolic link
C29_WitnessLink ==
  /\ pc = "roots"
  /\ dir = LinkFrom \o <<"app", "none">>
  /\ srcRoot(fs, dir).src = GOPATH
  /\ vdir = LinkFrom \o <<"app">>

\* the descriptors processStencil has returned for the j-th import of log
ReturnedFor(j) ==
  LET off == Len(Flat(SubSeq(log, 1, j - 1)))
  IN  {ret.files[off + i] : i \in DOMAIN log[j].out}

\* C30: the descriptors returned for an import are those of its import
\* path, the contents of the stencil directory and the vendor root alone:
\* the decoding and the rewritten files are what they are for that import
\* on its own, whatever was processed before it in the invocation, and two
\* imports of the same path under the same vendor root get the same
\* descriptors.
C30_Independent ==
  (pc = "returned" /\ ret.err = "") =>
    \A j \in DOMAIN log :
      LET e == log[j]
          d == replacements(fs, RootsOf(e), e.imp)
      IN  /\ e.ok = d.ok
          /\ e.ok =>
               /\ e.stencil = d.dir
               /\ e.r = d.r
               /\ ReturnedFor(j) = {Specialized(fs, e, n) : n \in SourceNames(fs, e.stencil)}
          /\ \A k \in DOMAIN log :
               (log[k].imp = e.imp /\ log[k].vendor = e.vendor)
                 => ReturnedFor(k) = ReturnedFor(j)

\* C30's case: one invocation has specialized the same stencil twice, with
\* different substitution maps
C30_Witness ==
  /\ pc = "returned"
  /\ ret.err = ""
  /\ \E j, k \in DOMAIN log :
       /\ j < k
       /\ log[j].ok
       /\ log[k].ok
       /\ log[j].stencil = log[k].stencil
       /\ log[j].r # log[k].r
       /\ Len(log[j].out) > 0
       /\ Len(log[k].out) > 0

====
